---- MODULE Spec2Model ----
(***************************************************************************)
(* Model of src/runtime/index.py: the NovaSonicBridge session driver, its  *)
(* draining task (_process_responses) and the /ws handler                  *)
(* (websocket_endpoint) that bridges one Vonage call to one Nova Sonic     *)
(* bidirectional stream.                                                   *)
(*                                                                         *)
(* asyncio is cooperative: a coroutine runs without interruption from one  *)
(* await that suspends to the next.  pc[c] is the position of the          *)
(* coroutine that drives session c (the handler, or a client of the class  *)
(* in SpecApi); the positions in Suspended are the awaits at which other   *)
(* tasks may run, all other positions are passed through without yielding. *)
(***************************************************************************)
EXTENDS Integers, Sequences, FiniteSets, TLC

\* One handler (and one NovaSonicBridge) per accepted WebSocket connection.
Calls == {"c1", "c2"}

\* Bounds of the model.
MaxMsgs == 2
MaxRx == 2
MaxApiCalls == 3
MaxApiRx == 1

\* The call whose handler runs in Spec and SpecApi; SpecTwo runs every call.
OneCall == {"c1"}

\* PCM payloads carried by binary transport messages (bytes as 0..255).
Payloads == { <<0, 1>>, <<77, 255, 16, 9>> }

-----------------------------------------------------------------------------
\* base64.b64encode / base64.b64decode on byte sequences.  A base64 text is
\* the sequence of its symbols' indices in the standard alphabet, 0..63,
\* with B64Pad for '='.
B64Pad == 64

RECURSIVE B64Encode(_)
B64Encode(b) ==
    IF Len(b) = 0 THEN << >>
    ELSE IF Len(b) = 1 THEN
        << b[1] \div 4, (b[1] % 4) * 16, B64Pad, B64Pad >>
    ELSE IF Len(b) = 2 THEN
        << b[1] \div 4, (b[1] % 4) * 16 + (b[2] \div 16), (b[2] % 16) * 4, B64Pad >>
    ELSE
        << b[1] \div 4, (b[1] % 4) * 16 + (b[2] \div 16),
           (b[2] % 16) * 4 + (b[3] \div 64), b[3] % 64 >>
        \o B64Encode(SubSeq(b, 4, Len(b)))

RECURSIVE B64Decode(_)
B64Decode(s) ==
    IF Len(s) < 4 THEN << >>
    ELSE
        LET b1 == s[1] * 4 + (s[2] \div 16)
            b2 == (s[2] % 16) * 16 + (s[3] \div 4)
            b3 == (s[3] % 4) * 64 + s[4]
        IN  IF s[3] = B64Pad THEN << b1 >>
            ELSE IF s[4] = B64Pad THEN << b1, b2 >>
            ELSE << b1, b2, b3 >> \o B64Decode(SubSeq(s, 5, Len(s)))

-----------------------------------------------------------------------------
VARIABLES
    pc,                 \* position of the coroutine driving the session
    stream,             \* self.stream: "none" or "open"
    is_active,          \* self.is_active
    prompt_name,        \* self.prompt_name
    content_name,       \* self.content_name
    audio_content_name, \* self.audio_content_name
    audio_chunks_sent,  \* self.audio_chunks_sent
    response_task,      \* self.response_task: "none", "created", "waiting", "sink", "done"
    cancel_requested,   \* response_task.cancel() was called and not yet delivered
    hs_step,            \* number of _send calls start() has made
    start_status,       \* "not_called", "running", "returned", "raised"
    stop_calls,         \* number of invocations of stop()
    sent,               \* events handed to stream.input_stream.send, in order
    close_calls,        \* number of calls of stream.input_stream.close()
    input_closed,       \* number of those calls that returned
    cancels,            \* number of response_task.cancel() calls
    first_message,      \* websocket_endpoint's first_message
    msg,                \* websocket_endpoint's msg (the last transport message)
    pcm_bytes,          \* send_audio's argument
    exc,                \* the exception the driving coroutine last saw raised
    msgs_left,          \* data messages the transport may still deliver
    rx_left,            \* inference events the stream may still deliver
    role,               \* _process_responses's role
    event,              \* _process_responses's event (the last one received)
    audio_bytes,        \* _process_responses's audio_bytes (pending in the sink)
    delivered,          \* chunks websocket.send_bytes has delivered, in order
    api_calls,          \* calls a client of the class has made (SpecApi)
    side_result         \* how a second task's last send_audio ended (SpecApi)

vars == << pc, stream, is_active, prompt_name, content_name, audio_content_name,
           audio_chunks_sent, response_task, cancel_requested, hs_step,
           start_status, stop_calls, sent, close_calls, input_closed, cancels,
           first_message,
           msg, pcm_bytes, exc, msgs_left, rx_left, role, event, audio_bytes,
           delivered, api_calls, side_result >>

sessionVars == << stream, is_active, audio_chunks_sent, response_task,
                  cancel_requested, hs_step, start_status, stop_calls, sent,
                  close_calls, input_closed, cancels, pcm_bytes, exc >>
closeVars == << close_calls, input_closed >>
idVars == << prompt_name, content_name, audio_content_name >>
handlerVars == << first_message, msg, msgs_left >>
taskVars == << rx_left, role, event, audio_bytes, delivered >>
apiVars == << api_calls, side_result >>

\* str(uuid.uuid4()): a fresh identifier at each call; the n-th uuid drawn
\* by the process.
Uuid4(n) == << "uuid", n >>

CallIndex(c) == IF c = "c1" THEN 0 ELSE 1

NoMsg == [type |-> "none"]
NoBytes == << >>
NoEvent == [kind |-> "none"]

\* The fields of every session after NovaSonicBridge() (lines 92..99), and
\* the locals of its handler and draining task.
InitFields ==
    /\ stream = [c \in Calls |-> "none"]
    /\ is_active = [c \in Calls |-> FALSE]
    /\ prompt_name = [c \in Calls |-> Uuid4(3 * CallIndex(c))]
    /\ content_name = [c \in Calls |-> Uuid4(3 * CallIndex(c) + 1)]
    /\ audio_content_name = [c \in Calls |-> Uuid4(3 * CallIndex(c) + 2)]
    /\ audio_chunks_sent = [c \in Calls |-> 0]
    /\ response_task = [c \in Calls |-> "none"]
    /\ cancel_requested = [c \in Calls |-> FALSE]
    /\ hs_step = [c \in Calls |-> 0]
    /\ start_status = [c \in Calls |-> "not_called"]
    /\ stop_calls = [c \in Calls |-> 0]
    /\ sent = [c \in Calls |-> << >>]
    /\ close_calls = [c \in Calls |-> 0]
    /\ input_closed = [c \in Calls |-> 0]
    /\ cancels = [c \in Calls |-> 0]
    /\ first_message = [c \in Calls |-> TRUE]
    /\ msg = [c \in Calls |-> NoMsg]
    /\ pcm_bytes = [c \in Calls |-> NoBytes]
    /\ exc = [c \in Calls |-> "none"]
    /\ role = [c \in Calls |-> "None"]
    /\ event = [c \in Calls |-> NoEvent]
    /\ audio_bytes = [c \in Calls |-> NoBytes]
    /\ delivered = [c \in Calls |-> << >>]
    /\ api_calls = [c \in Calls |-> 0]
    /\ side_result = [c \in Calls |-> "none"]

\* The state after websocket.accept() and NovaSonicBridge() (lines 368..371).
Init ==
    /\ pc = [c \in Calls |-> "init"]
    /\ msgs_left = [c \in Calls |-> MaxMsgs]
    /\ rx_left = [c \in Calls |-> MaxRx]
    /\ InitFields

\* The awaits at which the coroutine driving session c is suspended, so that
\* the event loop runs other tasks: the stream open (line 123), the settle
\* pauses of start (130..217) and stop (324, 333), the close (341), the
\* await of the cancelled task (348), the transport receive (385); a client
\* between two calls ("idle") and a handler that has not started or has
\* returned.
Suspended(c) ==
    pc[c] \in {"init", "open", "hs", "recv", "stop_s1", "stop_s2", "stop_closing",
               "stop_await", "idle", "done"}

-----------------------------------------------------------------------------
\* The outbound events, as the fields the code puts in them.
SessionStartEvent ==
    [kind |-> "sessionStart"]
PromptStartEvent(c) ==
    [kind |-> "promptStart", promptName |-> prompt_name[c]]
SystemContentStartEvent(c) ==
    [kind |-> "contentStart", promptName |-> prompt_name[c],
     contentName |-> content_name[c], type |-> "TEXT", interactive |-> FALSE,
     role |-> "SYSTEM"]
TextInputEvent(c) ==
    [kind |-> "textInput", promptName |-> prompt_name[c],
     contentName |-> content_name[c], content |-> "SYSTEM_PROMPT"]
SystemContentEndEvent(c) ==
    [kind |-> "contentEnd", promptName |-> prompt_name[c],
     contentName |-> content_name[c]]
AudioContentStartEvent(c) ==
    [kind |-> "contentStart", promptName |-> prompt_name[c],
     contentName |-> audio_content_name[c], type |-> "AUDIO", interactive |-> TRUE,
     role |-> "USER"]
\* AudioInputEvent with the payload put in the event as it is, not encoded.
AudioInputEvent_Raw(c, b) ==
    [kind |-> "audioInput", promptName |-> prompt_name[c],
     contentName |-> audio_content_name[c], content |-> b]

AudioInputEvent(c, b) ==
    [kind |-> "audioInput", promptName |-> prompt_name[c],
     contentName |-> audio_content_name[c], content |-> B64Encode(b)]
AudioContentEndEvent(c) ==
    [kind |-> "contentEnd", promptName |-> prompt_name[c],
     contentName |-> audio_content_name[c]]
PromptEndEvent(c) ==
    [kind |-> "promptEnd", promptName |-> prompt_name[c]]
SessionEndEvent ==
    [kind |-> "sessionEnd"]

\* HandshakeEvent with the audio content opened under the system content's
\* name.
HandshakeEvent_WrongContentName(c, k) ==
    CASE k = 1 -> SessionStartEvent
      [] k = 2 -> PromptStartEvent(c)
      [] k = 3 -> SystemContentStartEvent(c)
      [] k = 4 -> TextInputEvent(c)
      [] k = 5 -> SystemContentEndEvent(c)
      [] OTHER -> [AudioContentStartEvent(c) EXCEPT !.contentName = content_name[c]]

\* The k-th event start() sends (lines 132, 145, 184, 198, 209, 219).
HandshakeEvent(c, k) ==
    CASE k = 1 -> SessionStartEvent
      [] k = 2 -> PromptStartEvent(c)
      [] k = 3 -> SystemContentStartEvent(c)
      [] k = 4 -> TextInputEvent(c)
      [] k = 5 -> SystemContentEndEvent(c)
      [] OTHER -> AudioContentStartEvent(c)

HandshakeLen == 6

\* _send's condition (line 109), with the flag's value at the time of the call.
SendGuardWith_StreamOnly(c, active) == stream[c] # "none"

SendGuardWith(c, active) == stream[c] # "none" /\ active

SendGuard(c) == SendGuardWith(c, is_active[c])

\* What stream.input_stream.send can do: return or raise.
SendResults == {"ok", "fail"}

\* _send(event) with the stream's send ending as res: "skip" when the guard
\* is false (nothing sent, nothing raised), else res.
SendOutcomeWith(c, active, res) == IF SendGuardWith(c, active) THEN res ELSE "skip"

SendOutcome(c, res) == SendOutcomeWith(c, is_active[c], res)

\* The stream's outbound log after _send(ev) ended as out.
SentAfter(c, ev, out) == IF out = "ok" THEN Append(sent[c], ev) ELSE sent[c]

-----------------------------------------------------------------------------
\* NovaSonicBridge.start

\* The handler calls bridge.start (line 380); start awaits the stream open.
CallStart(c) ==
    /\ pc[c] = "init"
    /\ pc' = [pc EXCEPT ![c] = "open"]
    /\ start_status' = [start_status EXCEPT ![c] = "running"]
    /\ UNCHANGED << stream, is_active, audio_chunks_sent, response_task,
                    cancel_requested, hs_step, stop_calls, sent, closeVars,
                    cancels, pcm_bytes, exc, apiVars >>
    /\ UNCHANGED << idVars, handlerVars, taskVars >>

\* Lines 123..130: the open returns, the flag is set, the draining task is
\* created, start sleeps.
StartOpenOk(c) ==
    /\ pc[c] = "open"
    /\ stream' = [stream EXCEPT ![c] = "open"]
    /\ is_active' = [is_active EXCEPT ![c] = TRUE]
    /\ response_task' = [response_task EXCEPT ![c] = "created"]
    /\ pc' = [pc EXCEPT ![c] = "hs"]
    /\ UNCHANGED << audio_chunks_sent, cancel_requested, hs_step, start_status,
                    stop_calls, sent, closeVars, cancels, pcm_bytes, exc,
                    apiVars >>
    /\ UNCHANGED << idVars, handlerVars, taskVars >>

\* StartOpenFail with the error logged and swallowed: start goes on to the
\* handshake without a stream.
StartOpenFail_Swallowed(c) ==
    /\ pc[c] = "open"
    /\ is_active' = [is_active EXCEPT ![c] = FALSE]
    /\ exc' = [exc EXCEPT ![c] = "OpenError"]
    /\ pc' = [pc EXCEPT ![c] = "hs"]
    /\ UNCHANGED << stream, audio_chunks_sent, response_task, cancel_requested,
                    hs_step, start_status, stop_calls, sent, closeVars, cancels,
                    pcm_bytes, apiVars >>
    /\ UNCHANGED << idVars, handlerVars, taskVars >>

\* Lines 123, 240..243: the open raises; start marks the session inactive
\* and re-raises.
StartOpenFail(c) ==
    /\ pc[c] = "open"
    /\ is_active' = [is_active EXCEPT ![c] = FALSE]
    /\ exc' = [exc EXCEPT ![c] = "OpenError"]
    /\ start_status' = [start_status EXCEPT ![c] = "raised"]
    /\ pc' = [pc EXCEPT ![c] = "start_raised"]
    /\ UNCHANGED << stream, audio_chunks_sent, response_task, cancel_requested,
                    hs_step, stop_calls, sent, closeVars, cancels, pcm_bytes,
                    apiVars >>
    /\ UNCHANGED << idVars, handlerVars, taskVars >>

\* StartStep with the flag set when the sixth _send has returned, whatever
\* happened to the flag during the handshake.
StartStep_ActivatesAtEnd(c) ==
    /\ pc[c] = "hs"
    /\ response_task[c] # "created"
    /\ \E res \in SendResults :
        LET k == hs_step[c] + 1
            out == SendOutcome(c, res)
        IN  /\ sent' = [sent EXCEPT ![c] = SentAfter(c, HandshakeEvent(c, k), out)]
            /\ hs_step' = [hs_step EXCEPT ![c] = k]
            /\ IF out = "fail"
               THEN /\ is_active' = [is_active EXCEPT ![c] = FALSE]
                    /\ exc' = [exc EXCEPT ![c] = "SendError"]
                    /\ start_status' = [start_status EXCEPT ![c] = "raised"]
                    /\ pc' = [pc EXCEPT ![c] = "start_raised"]
               ELSE /\ is_active' = [is_active EXCEPT ![c] =
                                        IF k = HandshakeLen THEN TRUE ELSE @]
                    /\ UNCHANGED exc
                    /\ start_status' = [start_status EXCEPT ![c] =
                                          IF k = HandshakeLen THEN "returned" ELSE @]
                    /\ pc' = [pc EXCEPT ![c] =
                                IF k = HandshakeLen THEN "start_returned" ELSE "hs"]
    /\ UNCHANGED << stream, audio_chunks_sent, response_task, cancel_requested,
                    stop_calls, closeVars, cancels, pcm_bytes, apiVars >>
    /\ UNCHANGED << idVars, handlerVars, taskVars >>

\* Lines 132..243: after a settle pause start sends its next handshake event
\* through _send.  A send that raises marks the session inactive (117, 242)
\* and start re-raises; after the sixth _send start returns.  The task
\* created at line 129 has run its first step before the pause of line 130
\* ends (the loop runs ready tasks before timers).
StartStep(c) ==
    /\ pc[c] = "hs"
    /\ response_task[c] # "created"
    /\ \E res \in SendResults :
        LET k == hs_step[c] + 1
            out == SendOutcome(c, res)
        IN  /\ sent' = [sent EXCEPT ![c] = SentAfter(c, HandshakeEvent(c, k), out)]
            /\ hs_step' = [hs_step EXCEPT ![c] = k]
            /\ IF out = "fail"
               THEN /\ is_active' = [is_active EXCEPT ![c] = FALSE]
                    /\ exc' = [exc EXCEPT ![c] = "SendError"]
                    /\ start_status' = [start_status EXCEPT ![c] = "raised"]
                    /\ pc' = [pc EXCEPT ![c] = "start_raised"]
               ELSE /\ UNCHANGED << is_active, exc >>
                    /\ start_status' = [start_status EXCEPT ![c] =
                                          IF k = HandshakeLen THEN "returned" ELSE @]
                    /\ pc' = [pc EXCEPT ![c] =
                                IF k = HandshakeLen THEN "start_returned" ELSE "hs"]
    /\ UNCHANGED << stream, audio_chunks_sent, response_task, cancel_requested,
                    stop_calls, closeVars, cancels, pcm_bytes, apiVars >>
    /\ UNCHANGED << idVars, handlerVars, taskVars >>

-----------------------------------------------------------------------------
\* NovaSonicBridge.send_audio

\* SendAudioRaises with the send's error swallowed.
SendAudioRaises_Swallowed(c, res) == FALSE

\* send_audio(b) on the session's fields, the stream's send ending as res
\* (lines 246..259).
SendAudioRaises(c, res) == is_active[c] /\ SendOutcome(c, res) = "fail"

SendAudioEffect(c, b, res) ==
    /\ audio_chunks_sent' = [audio_chunks_sent EXCEPT ![c] =
                               IF is_active[c] THEN @ + 1 ELSE @]
    /\ sent' = [sent EXCEPT ![c] =
                  IF is_active[c]
                  THEN SentAfter(c, AudioInputEvent(c, b), SendOutcome(c, res))
                  ELSE @]
    /\ is_active' = [is_active EXCEPT ![c] =
                       IF SendAudioRaises(c, res) THEN FALSE ELSE @]

\* The driving coroutine's call of send_audio(pcm_bytes), to its return or
\* raise.
SendAudio(c) ==
    /\ pc[c] = "sa_call"
    /\ \E res \in SendResults :
        /\ SendAudioEffect(c, pcm_bytes[c], res)
        /\ exc' = [exc EXCEPT ![c] = IF SendAudioRaises(c, res) THEN "SendError" ELSE @]
        /\ pc' = [pc EXCEPT ![c] =
                    IF SendAudioRaises(c, res) THEN "sa_raised" ELSE "sa_returned"]
    /\ UNCHANGED << stream, response_task, cancel_requested, hs_step, start_status,
                    stop_calls, closeVars, cancels, pcm_bytes, apiVars >>
    /\ UNCHANGED << idVars, handlerVars, taskVars >>

-----------------------------------------------------------------------------
\* NovaSonicBridge.stop

\* Lines 310..324: the guard, the flag, the first _send, the first pause.
\* _send reads the flag after line 313 has cleared it.
StopBegin(c) ==
    /\ pc[c] = "stop_call"
    /\ stop_calls' = [stop_calls EXCEPT ![c] = @ + 1]
    /\ IF ~is_active[c]
       THEN /\ pc' = [pc EXCEPT ![c] = "stop_returned"]
            /\ UNCHANGED << is_active, sent >>
       ELSE \E res \in SendResults :
            LET out == SendOutcomeWith(c, FALSE, res)
            IN  /\ is_active' = [is_active EXCEPT ![c] = FALSE]
                /\ sent' = [sent EXCEPT ![c] = SentAfter(c, AudioContentEndEvent(c), out)]
                /\ pc' = [pc EXCEPT ![c] = IF out = "fail" THEN "stop_cancel" ELSE "stop_s1"]
    /\ UNCHANGED << stream, audio_chunks_sent, response_task, cancel_requested,
                    hs_step, start_status, closeVars, cancels, pcm_bytes, exc,
                    apiVars >>
    /\ UNCHANGED << idVars, handlerVars, taskVars >>

\* Lines 326..333: the second _send and pause.  An error is logged and
\* swallowed (342) and stop goes on at line 345.
StopPromptEnd(c) ==
    /\ pc[c] = "stop_s1"
    /\ \E res \in SendResults :
        LET out == SendOutcome(c, res)
        IN  /\ sent' = [sent EXCEPT ![c] = SentAfter(c, PromptEndEvent(c), out)]
            /\ is_active' = [is_active EXCEPT ![c] = IF out = "fail" THEN FALSE ELSE @]
            /\ pc' = [pc EXCEPT ![c] = IF out = "fail" THEN "stop_cancel" ELSE "stop_s2"]
    /\ UNCHANGED << stream, audio_chunks_sent, response_task, cancel_requested,
                    hs_step, start_status, stop_calls, closeVars, cancels,
                    pcm_bytes, exc, apiVars >>
    /\ UNCHANGED << idVars, handlerVars, taskVars >>

\* Lines 335..341: the third _send, then the close of the outbound half is
\* awaited.
StopSessionEnd(c) ==
    /\ pc[c] = "stop_s2"
    /\ \E res \in SendResults :
        LET out == SendOutcome(c, res)
        IN  /\ sent' = [sent EXCEPT ![c] = SentAfter(c, SessionEndEvent, out)]
            /\ is_active' = [is_active EXCEPT ![c] = IF out = "fail" THEN FALSE ELSE @]
            /\ pc' = [pc EXCEPT ![c] = IF out = "fail" THEN "stop_cancel" ELSE "stop_closing"]
    /\ UNCHANGED << stream, audio_chunks_sent, response_task, cancel_requested,
                    hs_step, start_status, stop_calls, closeVars, cancels,
                    pcm_bytes, exc, apiVars >>
    /\ UNCHANGED << idVars, handlerVars, taskVars >>

\* Line 341 ends: the close returned, or raised and was swallowed (342).
CloseResults == {"ok", "fail"}

\* StopClose without the except clause of line 342: a failed close leaves
\* stop at once.
StopClose_Propagates(c) ==
    /\ pc[c] = "stop_closing"
    /\ \E r \in CloseResults :
        /\ input_closed' = [input_closed EXCEPT ![c] = IF r = "ok" THEN @ + 1 ELSE @]
        /\ pc' = [pc EXCEPT ![c] = IF r = "ok" THEN "stop_cancel" ELSE "stop_returned"]
        /\ exc' = [exc EXCEPT ![c] = IF r = "ok" THEN @ ELSE "Exception"]
    /\ close_calls' = [close_calls EXCEPT ![c] = @ + 1]
    /\ UNCHANGED << stream, is_active, audio_chunks_sent, response_task,
                    cancel_requested, hs_step, start_status, stop_calls, sent,
                    cancels, pcm_bytes, apiVars >>
    /\ UNCHANGED << idVars, handlerVars, taskVars >>

StopClose(c) ==
    /\ pc[c] = "stop_closing"
    /\ \E r \in CloseResults :
        input_closed' = [input_closed EXCEPT ![c] = IF r = "ok" THEN @ + 1 ELSE @]
    /\ close_calls' = [close_calls EXCEPT ![c] = @ + 1]
    /\ pc' = [pc EXCEPT ![c] = "stop_cancel"]
    /\ UNCHANGED << stream, is_active, audio_chunks_sent, response_task,
                    cancel_requested, hs_step, start_status, stop_calls, sent,
                    cancels, pcm_bytes, exc, apiVars >>
    /\ UNCHANGED << idVars, handlerVars, taskVars >>

\* StopCancel without the cancellation: stop returns and leaves the task.
StopCancel_NoCancel(c) ==
    /\ pc[c] = "stop_cancel"
    /\ pc' = [pc EXCEPT ![c] = "stop_returned"]
    /\ UNCHANGED << sessionVars, apiVars >>
    /\ UNCHANGED << idVars, handlerVars, taskVars >>

\* Lines 345..348: cancel the draining task if it is still running, and
\* await it.
StopCancel(c) ==
    /\ pc[c] = "stop_cancel"
    /\ IF response_task[c] \notin {"none", "done"}
       THEN /\ cancel_requested' = [cancel_requested EXCEPT ![c] = TRUE]
            /\ cancels' = [cancels EXCEPT ![c] = @ + 1]
            /\ pc' = [pc EXCEPT ![c] = "stop_await"]
       ELSE /\ pc' = [pc EXCEPT ![c] = "stop_returned"]
            /\ UNCHANGED << cancel_requested, cancels >>
    /\ UNCHANGED << stream, is_active, audio_chunks_sent, response_task, hs_step,
                    start_status, stop_calls, sent, closeVars, pcm_bytes, exc,
                    apiVars >>
    /\ UNCHANGED << idVars, handlerVars, taskVars >>

\* Lines 348..350: the awaited task has ended; stop returns.
StopAwait(c) ==
    /\ pc[c] = "stop_await"
    /\ response_task[c] = "done"
    /\ pc' = [pc EXCEPT ![c] = "stop_returned"]
    /\ UNCHANGED << sessionVars, apiVars >>
    /\ UNCHANGED << idVars, handlerVars, taskVars >>

-----------------------------------------------------------------------------
\* NovaSonicBridge._process_responses (the draining task)

\* Inference events the stream delivers: the top-level tag and the fields
\* the task reads.
RxEvents ==
    { [kind |-> "contentStart", role |-> "ASSISTANT"],
      [kind |-> "textOutput", content |-> "text"],
      [kind |-> "audioOutput", content |-> << >>],
      [kind |-> "usageEvent"] }
    \cup { [kind |-> "audioOutput", content |-> B64Encode(p)] : p \in Payloads }

\* What ends a receive that raises (lines 267..271).
RxErrors == {"StopAsyncIteration", "Exception"}

\* The task's state after the loop condition of line 265: it awaits the
\* next event, or leaves the loop and ends through the finally of line 306.
AfterLoopCheck(active) == IF active THEN "waiting" ELSE "done"

\* Line 261..267: the task's first step.
TaskBegin(c) ==
    /\ Suspended(c)
    /\ response_task[c] = "created"
    /\ response_task' = [response_task EXCEPT ![c] = AfterLoopCheck(is_active[c])]
    /\ is_active' = [is_active EXCEPT ![c] = IF is_active[c] THEN @ ELSE FALSE]
    /\ UNCHANGED << pc, stream, audio_chunks_sent, cancel_requested, hs_step,
                    start_status, stop_calls, sent, closeVars, cancels,
                    pcm_bytes, exc, apiVars >>
    /\ UNCHANGED << idVars, handlerVars, taskVars >>

\* Lines 294..296: the events that reach the sink call of line 298.
SinkInvoked_AnyAudio(ev) == ev.kind = "audioOutput"

SinkInvoked(ev) == ev.kind = "audioOutput" /\ ev.content # << >>

\* TaskReceive with a dispatch that raises on a tag it has no branch for:
\* the task ends through line 304 and marks the session inactive.
TaskReceive_UnknownTagFatal(c, ev) ==
    /\ Suspended(c)
    /\ response_task[c] = "waiting"
    /\ ~cancel_requested[c]
    /\ rx_left[c] > 0
    /\ rx_left' = [rx_left EXCEPT ![c] = @ - 1]
    /\ event' = [event EXCEPT ![c] = ev]
    /\ role' = [role EXCEPT ![c] = IF ev.kind = "contentStart" THEN ev.role ELSE @]
    /\ IF SinkInvoked(ev)
       THEN /\ audio_bytes' = [audio_bytes EXCEPT ![c] = B64Decode(ev.content)]
            /\ response_task' = [response_task EXCEPT ![c] = "sink"]
            /\ UNCHANGED is_active
       ELSE IF ev.kind \in {"contentStart", "textOutput", "audioOutput"}
       THEN /\ response_task' = [response_task EXCEPT ![c] = AfterLoopCheck(is_active[c])]
            /\ UNCHANGED << audio_bytes, is_active >>
       ELSE /\ response_task' = [response_task EXCEPT ![c] = "done"]
            /\ is_active' = [is_active EXCEPT ![c] = FALSE]
            /\ UNCHANGED audio_bytes
    /\ UNCHANGED << pc, stream, audio_chunks_sent, cancel_requested,
                    hs_step, start_status, stop_calls, sent, closeVars, cancels,
                    pcm_bytes, exc, apiVars, delivered >>
    /\ UNCHANGED << idVars, handlerVars >>

\* Lines 267..298: an event is received and dispatched on its tag.  An
\* audioOutput with content is decoded and handed to the sink (298);
\* after any other event the loop condition is read again.
TaskReceive(c, ev) ==
    /\ Suspended(c)
    /\ response_task[c] = "waiting"
    /\ ~cancel_requested[c]
    /\ rx_left[c] > 0
    /\ rx_left' = [rx_left EXCEPT ![c] = @ - 1]
    /\ event' = [event EXCEPT ![c] = ev]
    /\ role' = [role EXCEPT ![c] = IF ev.kind = "contentStart" THEN ev.role ELSE @]
    /\ IF SinkInvoked(ev)
       THEN /\ audio_bytes' = [audio_bytes EXCEPT ![c] = B64Decode(ev.content)]
            /\ response_task' = [response_task EXCEPT ![c] = "sink"]
       ELSE /\ response_task' = [response_task EXCEPT ![c] = AfterLoopCheck(is_active[c])]
            /\ UNCHANGED audio_bytes
    /\ UNCHANGED << pc, stream, is_active, audio_chunks_sent, cancel_requested,
                    hs_step, start_status, stop_calls, sent, closeVars, cancels,
                    pcm_bytes, exc, apiVars, delivered >>
    /\ UNCHANGED << idVars, handlerVars >>

\* Lines 269..271, 300..307: the receive raises; the task ends and marks
\* the session inactive.
TaskReceiveFails(c, e) ==
    /\ Suspended(c)
    /\ response_task[c] = "waiting"
    /\ ~cancel_requested[c]
    /\ response_task' = [response_task EXCEPT ![c] = "done"]
    /\ is_active' = [is_active EXCEPT ![c] = FALSE]
    /\ UNCHANGED << pc, stream, audio_chunks_sent, cancel_requested, hs_step,
                    start_status, stop_calls, sent, closeVars, cancels,
                    pcm_bytes, exc, apiVars >>
    /\ UNCHANGED << idVars, handlerVars, taskVars >>

\* send_to_vonage (373..377) ends: websocket.send_bytes returned, or raised
\* and was logged; the task reads the loop condition again.
SinkResults == {"ok", "fail"}

\* TaskSink without the except clause of line 376: a failed send_bytes
\* reaches the task's own handler (304) and ends the task.
TaskSink_FailureFatal(c, r) ==
    /\ Suspended(c)
    /\ response_task[c] = "sink"
    /\ ~cancel_requested[c]
    /\ delivered' = [delivered EXCEPT ![c] =
                       IF r = "ok" THEN Append(@, audio_bytes[c]) ELSE @]
    /\ audio_bytes' = [audio_bytes EXCEPT ![c] = NoBytes]
    /\ response_task' = [response_task EXCEPT ![c] =
                           IF r = "ok" THEN AfterLoopCheck(is_active[c]) ELSE "done"]
    /\ is_active' = [is_active EXCEPT ![c] = IF r = "ok" THEN @ ELSE FALSE]
    /\ UNCHANGED << pc, stream, audio_chunks_sent, cancel_requested, hs_step,
                    start_status, stop_calls, sent, closeVars, cancels,
                    pcm_bytes, exc, apiVars, rx_left, role, event >>
    /\ UNCHANGED << idVars, handlerVars >>

TaskSink(c, r) ==
    /\ Suspended(c)
    /\ response_task[c] = "sink"
    /\ ~cancel_requested[c]
    /\ delivered' = [delivered EXCEPT ![c] =
                       IF r = "ok" THEN Append(@, audio_bytes[c]) ELSE @]
    /\ audio_bytes' = [audio_bytes EXCEPT ![c] = NoBytes]
    /\ response_task' = [response_task EXCEPT ![c] = AfterLoopCheck(is_active[c])]
    /\ is_active' = [is_active EXCEPT ![c] = IF is_active[c] THEN @ ELSE FALSE]
    /\ UNCHANGED << pc, stream, audio_chunks_sent, cancel_requested, hs_step,
                    start_status, stop_calls, sent, closeVars, cancels,
                    pcm_bytes, exc, apiVars, rx_left, role, event >>
    /\ UNCHANGED << idVars, handlerVars >>

\* Lines 300..307: CancelledError is thrown into the task at its await; the
\* task ends.
TaskCancelled(c) ==
    /\ Suspended(c)
    /\ response_task[c] \in {"waiting", "sink"}
    /\ cancel_requested[c]
    /\ response_task' = [response_task EXCEPT ![c] = "done"]
    /\ cancel_requested' = [cancel_requested EXCEPT ![c] = FALSE]
    /\ is_active' = [is_active EXCEPT ![c] = FALSE]
    /\ audio_bytes' = [audio_bytes EXCEPT ![c] = NoBytes]
    /\ UNCHANGED << pc, stream, audio_chunks_sent, hs_step, start_status,
                    stop_calls, sent, closeVars, cancels, pcm_bytes, exc,
                    apiVars, rx_left, role, event, delivered >>
    /\ UNCHANGED << idVars, handlerVars >>

-----------------------------------------------------------------------------
\* websocket_endpoint (the Call Bridge Loop)

\* What websocket.receive() returns.
DataMessages ==
    { [type |-> "websocket.receive", text |-> "banner"] }
    \cup { [type |-> "websocket.receive", bytes |-> p] : p \in Payloads }

DisconnectMessage == [type |-> "websocket.disconnect"]

\* What websocket.receive() raises.
RecvErrors == {"WebSocketDisconnect", "Exception"}

\* The loop condition of line 383: await the next message, or leave the
\* loop for the finally of line 405.
LoopCheck(active) == IF active THEN "recv" ELSE "finally"

\* Lines 380..383: start returned.
HandlerStarted(c) ==
    /\ pc[c] = "start_returned"
    /\ pc' = [pc EXCEPT ![c] = LoopCheck(is_active[c])]
    /\ UNCHANGED << sessionVars, apiVars >>
    /\ UNCHANGED << idVars, handlerVars, taskVars >>

\* HandlerStartRaised with start called outside the try: the error leaves the
\* handler without the finally clause.
HandlerStartRaised_NoFinally(c) ==
    /\ pc[c] = "start_raised"
    /\ pc' = [pc EXCEPT ![c] = "done"]
    /\ UNCHANGED << sessionVars, apiVars >>
    /\ UNCHANGED << idVars, handlerVars, taskVars >>

\* Lines 380, 403..405: start raised; the handler logs it.
HandlerStartRaised(c) ==
    /\ pc[c] = "start_raised"
    /\ pc' = [pc EXCEPT ![c] = "finally"]
    /\ UNCHANGED << sessionVars, apiVars >>
    /\ UNCHANGED << idVars, handlerVars, taskVars >>

\* The receive of line 385 without its timeout: the loop condition is not
\* read again until a message arrives.
RecvTimeout_NeverExpires(c) ==
    /\ pc[c] = "recv"
    /\ UNCHANGED vars

\* Lines 385..387: the receive timed out.
RecvTimeout(c) ==
    /\ pc[c] = "recv"
    /\ pc' = [pc EXCEPT ![c] = LoopCheck(is_active[c])]
    /\ UNCHANGED << sessionVars, apiVars >>
    /\ UNCHANGED << idVars, handlerVars, taskVars >>

\* Line 385: a message arrived.
RecvMessage(c, m) ==
    /\ pc[c] = "recv"
    /\ m.type = "websocket.receive" => msgs_left[c] > 0
    /\ msg' = [msg EXCEPT ![c] = m]
    /\ msgs_left' = [msgs_left EXCEPT ![c] = IF m.type = "websocket.receive" THEN @ - 1 ELSE @]
    /\ pc' = [pc EXCEPT ![c] = "got_msg"]
    /\ UNCHANGED << sessionVars, apiVars, first_message >>
    /\ UNCHANGED << idVars, taskVars >>

\* Lines 385, 401..405: the receive raised.
RecvRaises(c, e) ==
    /\ pc[c] = "recv"
    /\ exc' = [exc EXCEPT ![c] = e]
    /\ pc' = [pc EXCEPT ![c] = "finally"]
    /\ UNCHANGED << stream, is_active, audio_chunks_sent, response_task,
                    cancel_requested, hs_step, start_status, stop_calls, sent,
                    closeVars, cancels, pcm_bytes, apiVars >>
    /\ UNCHANGED << idVars, handlerVars, taskVars >>

\* Line 393: the message is taken for the transport's opening banner.
IsBanner_AnyFirst(first, m) == first

IsBanner(first, m) == first /\ "text" \in DOMAIN m

\* Lines 389..399: the message is dispatched.
HandleMessage(c) ==
    /\ pc[c] = "got_msg"
    /\ IF msg[c].type = "websocket.disconnect"
       THEN /\ pc' = [pc EXCEPT ![c] = "finally"]
            /\ UNCHANGED << first_message, pcm_bytes >>
       ELSE IF IsBanner(first_message[c], msg[c])
       THEN /\ first_message' = [first_message EXCEPT ![c] = FALSE]
            /\ pc' = [pc EXCEPT ![c] = LoopCheck(is_active[c])]
            /\ UNCHANGED pcm_bytes
       ELSE IF "bytes" \in DOMAIN msg[c]
       THEN /\ pcm_bytes' = [pcm_bytes EXCEPT ![c] = msg[c].bytes]
            /\ pc' = [pc EXCEPT ![c] = "sa_call"]
            /\ UNCHANGED first_message
       ELSE /\ pc' = [pc EXCEPT ![c] = LoopCheck(is_active[c])]
            /\ UNCHANGED << first_message, pcm_bytes >>
    /\ UNCHANGED << stream, is_active, audio_chunks_sent, response_task,
                    cancel_requested, hs_step, start_status, stop_calls, sent,
                    closeVars, cancels, exc, apiVars, msg, msgs_left >>
    /\ UNCHANGED << idVars, taskVars >>

\* Lines 399, 383: send_audio returned.
HandlerSent(c) ==
    /\ pc[c] = "sa_returned"
    /\ pc' = [pc EXCEPT ![c] = LoopCheck(is_active[c])]
    /\ UNCHANGED << sessionVars, apiVars >>
    /\ UNCHANGED << idVars, handlerVars, taskVars >>

\* Lines 399, 403..405: send_audio raised; the handler logs it.
HandlerSendRaised(c) ==
    /\ pc[c] = "sa_raised"
    /\ pc' = [pc EXCEPT ![c] = "finally"]
    /\ UNCHANGED << sessionVars, apiVars >>
    /\ UNCHANGED << idVars, handlerVars, taskVars >>

\* Lines 405..406: the finally clause calls stop.
Finally(c) ==
    /\ pc[c] = "finally"
    /\ pc' = [pc EXCEPT ![c] = "stop_call"]
    /\ UNCHANGED << sessionVars, apiVars >>
    /\ UNCHANGED << idVars, handlerVars, taskVars >>

\* Line 406: stop returned; the handler returns.
HandlerReturn(c) ==
    /\ pc[c] = "stop_returned"
    /\ pc' = [pc EXCEPT ![c] = "done"]
    /\ UNCHANGED << sessionVars, apiVars >>
    /\ UNCHANGED << idVars, handlerVars, taskVars >>

-----------------------------------------------------------------------------
\* The steps of a session and its draining task, whoever drives it.
SessionNext(c) ==
    \/ StartOpenOk(c)
    \/ StartOpenFail(c)
    \/ StartStep(c)
    \/ SendAudio(c)
    \/ StopBegin(c)
    \/ StopPromptEnd(c)
    \/ StopSessionEnd(c)
    \/ StopClose(c)
    \/ StopCancel(c)
    \/ StopAwait(c)
    \/ TaskBegin(c)
    \/ \E ev \in RxEvents : TaskReceive(c, ev)
    \/ \E e \in RxErrors : TaskReceiveFails(c, e)
    \/ \E r \in SinkResults : TaskSink(c, r)
    \/ TaskCancelled(c)

HandlerNext(c) ==
    \/ CallStart(c)
    \/ HandlerStarted(c)
    \/ HandlerStartRaised(c)
    \/ RecvTimeout(c)
    \/ \E m \in DataMessages \cup {DisconnectMessage} : RecvMessage(c, m)
    \/ \E e \in RecvErrors : RecvRaises(c, e)
    \/ HandleMessage(c)
    \/ HandlerSent(c)
    \/ HandlerSendRaised(c)
    \/ Finally(c)
    \/ HandlerReturn(c)

\* The program with one call in progress: its handler, session and draining
\* task.
Next == \E c \in OneCall : SessionNext(c) \/ HandlerNext(c)

Spec == Init /\ [][Next]_vars

-----------------------------------------------------------------------------
\* A client of the class: one task that calls start (once), send_audio and
\* stop in any order, each call awaited to its end, and a second task that
\* calls send_audio while the first is suspended inside start or stop.

ApiCallStart(c) ==
    /\ pc[c] = "idle"
    /\ start_status[c] = "not_called"
    /\ api_calls[c] < MaxApiCalls
    /\ api_calls' = [api_calls EXCEPT ![c] = @ + 1]
    /\ start_status' = [start_status EXCEPT ![c] = "running"]
    /\ pc' = [pc EXCEPT ![c] = "open"]
    /\ UNCHANGED << stream, is_active, audio_chunks_sent, response_task,
                    cancel_requested, hs_step, stop_calls, sent, closeVars,
                    cancels, pcm_bytes, exc, side_result >>
    /\ UNCHANGED << idVars, handlerVars, taskVars >>

ApiCallSendAudio(c, b) ==
    /\ pc[c] = "idle"
    /\ api_calls[c] < MaxApiCalls
    /\ api_calls' = [api_calls EXCEPT ![c] = @ + 1]
    /\ pcm_bytes' = [pcm_bytes EXCEPT ![c] = b]
    /\ pc' = [pc EXCEPT ![c] = "sa_call"]
    /\ UNCHANGED << stream, is_active, audio_chunks_sent, response_task,
                    cancel_requested, hs_step, start_status, stop_calls, sent,
                    closeVars, cancels, exc, side_result >>
    /\ UNCHANGED << idVars, handlerVars, taskVars >>

ApiCallStop(c) ==
    /\ pc[c] = "idle"
    /\ api_calls[c] < MaxApiCalls
    /\ api_calls' = [api_calls EXCEPT ![c] = @ + 1]
    /\ pc' = [pc EXCEPT ![c] = "stop_call"]
    /\ UNCHANGED << sessionVars, side_result >>
    /\ UNCHANGED << idVars, handlerVars, taskVars >>

\* The awaited call returned or raised; the client goes on.
ApiReturn(c) ==
    /\ pc[c] \in {"start_returned", "start_raised", "sa_returned", "sa_raised",
                  "stop_returned"}
    /\ pc' = [pc EXCEPT ![c] = "idle"]
    /\ UNCHANGED << sessionVars, apiVars >>
    /\ UNCHANGED << idVars, handlerVars, taskVars >>

\* The second task's send_audio(b), run while the first task is suspended in
\* start or stop.
ApiConcurrentSendAudio(c, b) ==
    /\ pc[c] \in {"open", "hs", "stop_s1", "stop_s2", "stop_closing", "stop_await"}
    /\ api_calls[c] < MaxApiCalls
    /\ api_calls' = [api_calls EXCEPT ![c] = @ + 1]
    /\ \E res \in SendResults :
        /\ SendAudioEffect(c, b, res)
        /\ side_result' = [side_result EXCEPT ![c] =
                             IF SendAudioRaises(c, res) THEN "raised" ELSE "returned"]
    /\ UNCHANGED << pc, stream, response_task, cancel_requested, hs_step,
                    start_status, stop_calls, closeVars, cancels, pcm_bytes, exc >>
    /\ UNCHANGED << idVars, handlerVars, taskVars >>

ApiNext(c) ==
    \/ ApiCallStart(c)
    \/ \E b \in Payloads : ApiCallSendAudio(c, b)
    \/ ApiCallStop(c)
    \/ ApiReturn(c)
    \/ \E b \in Payloads : ApiConcurrentSendAudio(c, b)

InitApi ==
    /\ pc = [c \in Calls |-> "idle"]
    /\ msgs_left = [c \in Calls |-> 0]
    /\ rx_left = [c \in Calls |-> MaxApiRx]
    /\ InitFields

NextApi == \E c \in OneCall : SessionNext(c) \/ ApiNext(c)

\* The class driven by a client.
SpecApi == InitApi /\ [][NextApi]_vars

-----------------------------------------------------------------------------
\* Two calls in progress at once.  Every step of the first call is one more
\* interleaving for each state of the second, so the environment of this
\* specification is kept short: one data message and one inference event
\* for the first call, none for the second.
InitTwo ==
    /\ pc = [c \in Calls |-> "init"]
    /\ msgs_left = [c \in Calls |-> IF c \in OneCall THEN 1 ELSE 0]
    /\ rx_left = [c \in Calls |-> IF c \in OneCall THEN 1 ELSE 0]
    /\ InitFields

NextTwo == \E c \in Calls : SessionNext(c) \/ HandlerNext(c)

SpecTwo == InitTwo /\ [][NextTwo]_vars

-----------------------------------------------------------------------------
\* What the event loop guarantees: a coroutine that can run is run, a settle
\* pause ends, a close and an await of a finished task end, and a requested
\* cancellation is delivered.  What the transport, the stream and the stream
\* open deliver is not guaranteed.
HandlerProgress(c) ==
    \/ HandlerStarted(c)
    \/ HandlerStartRaised(c)
    \/ HandleMessage(c)
    \/ HandlerSent(c)
    \/ HandlerSendRaised(c)
    \/ Finally(c)
    \/ HandlerReturn(c)
    \/ StartStep(c)
    \/ SendAudio(c)
    \/ StopBegin(c)
    \/ StopPromptEnd(c)
    \/ StopSessionEnd(c)
    \/ StopClose(c)
    \/ StopCancel(c)
    \/ StopAwait(c)

TaskProgress(c) == TaskBegin(c) \/ TaskCancelled(c)

FairSpec ==
    /\ Init
    /\ [][Next]_vars
    /\ \A c \in OneCall : WF_vars(HandlerProgress(c)) /\ WF_vars(TaskProgress(c))

\* FairSpec, and the bounded wait of line 385 always runs out: a handler
\* suspended in the receive is resumed after 0.1 s at the latest.
FairPollSpec ==
    /\ Init
    /\ [][Next]_vars
    /\ \A c \in OneCall : /\ WF_vars(HandlerProgress(c))
                          /\ WF_vars(TaskProgress(c))
                          /\ WF_vars(RecvTimeout(c))

-----------------------------------------------------------------------------
\* Properties

Last(q) == q[Len(q)]

\* The last n elements of q (all of q when it is shorter).
Suffix(q, n) == SubSeq(q, IF Len(q) > n THEN Len(q) - n + 1 ELSE 1, Len(q))

Min(a, b) == IF a < b THEN a ELSE b

\* The shutdown sequence stop() is to emit.
ShutdownSequence(c) ==
    << [kind |-> "contentEnd", promptName |-> prompt_name[c],
        contentName |-> audio_content_name[c]],
       [kind |-> "promptEnd", promptName |-> prompt_name[c]],
       [kind |-> "sessionEnd"] >>

\* C1: stop() on an active session clears the flag, then emits contentEnd
\* (prompt and audio-content identifiers), promptEnd, sessionEnd in that
\* order, and closes the outbound half only after them: after each of its
\* steps the stream's log ends with the events sent so far, and the close
\* has been called only once the three are on the stream.
C1_StopEmitsShutdown ==
    \A c \in Calls :
        /\ pc[c] \in {"stop_s1", "stop_s2", "stop_closing", "stop_cancel"} => ~is_active[c]
        /\ pc[c] = "stop_s1" => Suffix(sent[c], 1) = SubSeq(ShutdownSequence(c), 1, 1)
        /\ pc[c] = "stop_s2" => Suffix(sent[c], 2) = SubSeq(ShutdownSequence(c), 1, 2)
        /\ pc[c] = "stop_closing" =>
              Suffix(sent[c], 3) = ShutdownSequence(c) /\ close_calls[c] = 0
        /\ close_calls[c] > 0 => Suffix(sent[c], 3) = ShutdownSequence(c)

\* C2: whenever start() returns without raising, the stream's log is exactly
\* the six handshake events with the session's identifiers and the flag is
\* true.
C2_StartReturnsReady ==
    \A c \in Calls :
        pc[c] = "start_returned" =>
            /\ is_active[c]
            /\ Len(sent[c]) = 6
            /\ sent[c][1].kind = "sessionStart"
            /\ sent[c][2].kind = "promptStart" /\ sent[c][2].promptName = prompt_name[c]
            /\ sent[c][3].kind = "contentStart" /\ sent[c][3].role = "SYSTEM"
            /\ sent[c][3].contentName = content_name[c]
            /\ sent[c][4].kind = "textInput" /\ sent[c][4].contentName = content_name[c]
            /\ sent[c][5].kind = "contentEnd" /\ sent[c][5].contentName = content_name[c]
            /\ sent[c][6].kind = "contentStart" /\ sent[c][6].role = "USER"
            /\ sent[c][6].contentName = audio_content_name[c]

\* The handshake in the order of the interface, with session c's
\* identifiers.
ExpectedHandshake(c) ==
    << [kind |-> "sessionStart"],
       [kind |-> "promptStart", promptName |-> prompt_name[c]],
       [kind |-> "contentStart", promptName |-> prompt_name[c],
        contentName |-> content_name[c], type |-> "TEXT", interactive |-> FALSE,
        role |-> "SYSTEM"],
       [kind |-> "textInput", promptName |-> prompt_name[c],
        contentName |-> content_name[c], content |-> "SYSTEM_PROMPT"],
       [kind |-> "contentEnd", promptName |-> prompt_name[c],
        contentName |-> content_name[c]],
       [kind |-> "contentStart", promptName |-> prompt_name[c],
        contentName |-> audio_content_name[c], type |-> "AUDIO", interactive |-> TRUE,
        role |-> "USER"] >>

\* The identifiers an event names.
EventIds(ev) ==
    (IF "promptName" \in DOMAIN ev THEN {ev.promptName} ELSE {})
    \cup (IF "contentName" \in DOMAIN ev THEN {ev.contentName} ELSE {})

SessionIds(c) == {prompt_name[c], content_name[c], audio_content_name[c]}

\* C3: in every state, with two calls in progress, the events a session has
\* emitted begin with a prefix of the fixed handshake order carrying its own
\* identifiers; anything after the six steps is no handshake step; no event
\* names an identifier of the other session.
C3_HandshakePrefix ==
    \A c \in Calls :
        LET n == Min(Len(sent[c]), 6)
        IN  /\ SubSeq(sent[c], 1, n) = SubSeq(ExpectedHandshake(c), 1, n)
            /\ \A i \in 7..Len(sent[c]) :
                  \A k \in 1..6 : sent[c][i] # ExpectedHandshake(c)[k]
            /\ \A i \in 1..Len(sent[c]) :
                  \A d \in Calls \ {c} : EventIds(sent[c][i]) \cap SessionIds(d) = {}

\* C3 witness: both sessions are in their handshake at once, the first with
\* five steps emitted, the second with three.
C3_Witness ==
    /\ pc["c1"] = "hs" /\ Len(sent["c1"]) = 5
    /\ pc["c2"] = "hs" /\ Len(sent["c2"]) = 3

\* The audioInput events in a log.
AudioCount(q) == Cardinality({i \in DOMAIN q : q[i].kind = "audioInput"})

\* A second task's send_audio on session c is this step.
SideCall(c) == api_calls'[c] # api_calls[c] /\ pc'[c] = pc[c]

\* C4: a send_audio call made before start() has completed successfully, or
\* after stop() has been called, emits no event and raises no error.
C4_NoOpOutsideActive ==
    [][\A c \in Calls :
        (start_status[c] # "returned" \/ stop_calls[c] > 0) =>
            /\ AudioCount(sent'[c]) = AudioCount(sent[c])
            /\ pc[c] = "sa_call" => pc'[c] = "sa_returned"
            /\ SideCall(c) => side_result'[c] = "returned"]_vars

\* The shutdown sequences in a log.
ShutdownCount(c) ==
    Cardinality({i \in 1..(Len(sent[c]) - 2) :
                    SubSeq(sent[c], i, i + 2) = ShutdownSequence(c)})

\* C5: stop() called a second time, after a first call that ran on an active
\* session (and so reached the close): the two calls have produced exactly
\* one shutdown sequence, one close and at most one cancellation, and the
\* second call returns having changed nothing.
C5_StopIdempotent ==
    [][\A c \in Calls :
        (pc[c] = "stop_call" /\ stop_calls[c] = 1 /\ close_calls[c] = 1) =>
            /\ ShutdownCount(c) = 1
            /\ cancels[c] <= 1
            /\ pc'[c] = "stop_returned"
            /\ sent'[c] = sent[c]
            /\ close_calls'[c] = close_calls[c]
            /\ cancels'[c] = cancels[c]
            /\ is_active'[c] = is_active[c]]_vars

\* The positions of the handler at or after the first step of stop().
InOrAfterStop ==
    {"stop_s1", "stop_s2", "stop_closing", "stop_cancel", "stop_await",
     "stop_returned", "done"}

\* C6: whatever makes the loop exit, stop() is invoked on the call's session
\* exactly once before the handler returns: never before the finally clause,
\* once from it on.
C6_StopExactlyOnce ==
    \A c \in Calls :
        /\ stop_calls[c] = IF pc[c] \in InOrAfterStop THEN 1 ELSE 0
        /\ pc[c] = "done" => stop_calls[c] = 1

\* C6 witness: the handler has returned after its receive raised.
C6_Witness ==
    pc["c1"] = "done" /\ exc["c1"] = "Exception" /\ stop_calls["c1"] = 1

\* The transport disconnects (the disconnect message, or WebSocketDisconnect
\* raised by the receive) while the session is active.
DisconnectWhileActive(c) ==
    /\ is_active[c]
    /\ \/ pc[c] = "got_msg" /\ msg[c].type = "websocket.disconnect"
       \/ pc[c] = "finally" /\ exc[c] = "WebSocketDisconnect"

\* C7: a transport disconnect while the session is active leads to stop()
\* having been called exactly once and the draining task having ended.
C7_DisconnectEndsTask ==
    \A c \in OneCall :
        DisconnectWhileActive(c) ~>
            (response_task[c] = "done" /\ stop_calls[c] = 1 /\ pc[c] = "done")

\* C7 witness: after a disconnect, stop() has cancelled the task while it
\* was blocked waiting for the next inference event, and awaits it.
C7_Witness ==
    /\ pc["c1"] = "stop_await" /\ msg["c1"].type = "websocket.disconnect"
    /\ response_task["c1"] = "waiting" /\ cancel_requested["c1"]

\* C8: once start() is past a stream open that failed (no stream), the error
\* has been raised to the caller, the flag is false, nothing was sent and no
\* task was spawned; the flag is never true without a stream.
C8_OpenFailure ==
    \A c \in Calls :
        /\ (start_status[c] # "not_called" /\ pc[c] # "open" /\ stream[c] = "none") =>
              /\ start_status[c] = "raised"
              /\ exc[c] = "OpenError"
              /\ ~is_active[c]
              /\ sent[c] = << >>
              /\ response_task[c] = "none"
        /\ stream[c] = "none" => ~is_active[c]

\* C8 witness: the handler has returned after the open failed.
C8_Witness ==
    pc["c1"] = "done" /\ exc["c1"] = "OpenError" /\ start_status["c1"] = "raised"

\* C9: a send_audio whose stream send fails returns control by raising, with
\* the flag false and nothing added to the stream; a send_audio on an
\* active session that returns normally has emitted its event (a failure is
\* not swallowed); after the failure the session stays inactive, and a
\* send_audio on an inactive session sends nothing, counts nothing and
\* raises nothing.
C9_SendFailure ==
    /\ [](\A c \in Calls : pc[c] = "sa_raised" => (~is_active[c] /\ exc[c] = "SendError"))
    /\ [][\A c \in Calls :
            /\ (pc[c] = "sa_call" /\ pc'[c] = "sa_raised") =>
                  (is_active[c] /\ sent'[c] = sent[c])
            /\ (pc[c] = "sa_call" /\ is_active[c] /\ pc'[c] = "sa_returned") =>
                  AudioCount(sent'[c]) = AudioCount(sent[c]) + 1
            /\ exc[c] = "SendError" => ~is_active'[c]
            /\ (pc[c] = "sa_call" /\ ~is_active[c]) =>
                  /\ pc'[c] = "sa_returned"
                  /\ sent'[c] = sent[c]
                  /\ audio_chunks_sent'[c] = audio_chunks_sent[c]
                  /\ ~is_active'[c]
            /\ (SideCall(c) /\ ~is_active[c]) =>
                  /\ side_result'[c] = "returned"
                  /\ sent'[c] = sent[c]
                  /\ audio_chunks_sent'[c] = audio_chunks_sent[c]]_vars

\* C9 witness: after start() succeeded and one send_audio raised, a later
\* send_audio has returned.
C9_Witness ==
    /\ pc["c1"] = "sa_returned" /\ exc["c1"] = "SendError"
    /\ start_status["c1"] = "returned" /\ audio_chunks_sent["c1"] = 1
    /\ AudioCount(sent["c1"]) = 0

\* base64 of the payloads, from base64.b64encode: "AAE=" and "Tf8QCQ==".
KnownB64(b) ==
    CASE b = <<0, 1>> -> <<0, 0, 4, 64>>
      [] b = <<77, 255, 16, 9>> -> <<19, 31, 60, 16, 2, 16, 64, 64>>
      [] OTHER -> << >>

\* C10: a send_audio(pcm_bytes) on an active session whose send succeeds
\* appends exactly one audioInput event, with the session's prompt and
\* audio-content identifiers and the base64 text of exactly pcm_bytes, and
\* adds one to the sent-chunk counter.
C10_SendAudioEmits ==
    [][\A c \in Calls :
        (pc[c] = "sa_call" /\ is_active[c] /\ pc'[c] = "sa_returned") =>
            /\ Len(sent'[c]) = Len(sent[c]) + 1
            /\ SubSeq(sent'[c], 1, Len(sent[c])) = sent[c]
            /\ Last(sent'[c]).kind = "audioInput"
            /\ Last(sent'[c]).promptName = prompt_name[c]
            /\ Last(sent'[c]).contentName = audio_content_name[c]
            /\ Last(sent'[c]).content = KnownB64(pcm_bytes[c])
            /\ B64Decode(Last(sent'[c]).content) = pcm_bytes[c]
            /\ audio_chunks_sent'[c] = audio_chunks_sent[c] + 1]_vars

\* C10 witness: two send_audio calls with different payloads have returned,
\* each with its event on the stream.
C10_Witness ==
    /\ pc["c1"] = "sa_returned" /\ audio_chunks_sent["c1"] = 2
    /\ Len(sent["c1"]) = 8
    /\ sent["c1"][7].kind = "audioInput" /\ sent["c1"][8].kind = "audioInput"
    /\ sent["c1"][7].content # sent["c1"][8].content

-----------------------------------------------------------------------------
\* Observations of the draining task's steps.

\* The step receives one inference event of call c.
Received(c) == rx_left'[c] = rx_left[c] - 1

\* The step invokes the sink of call c.
SinkCalled(c) == response_task'[c] = "sink" /\ response_task[c] # "sink"

\* The event held after the step is an audioOutput with a payload.
AudioWithPayload(ev) == ev.kind = "audioOutput" /\ ev.content # << >>

\* C11: every received audioOutput event with a non-empty payload invokes
\* the sink exactly once, in the step that receives it, with the bytes its
\* payload encodes; no other step invokes the sink; the task receives
\* nothing while a sink call is pending, so the calls keep the order of
\* the events, and what the sink delivers are its arguments in that order.
C11_SinkPerAudioOutput ==
    [][\A c \in OneCall :
        /\ (Received(c) /\ AudioWithPayload(event'[c]))
              => /\ SinkCalled(c)
                 /\ \E p \in Payloads : /\ B64Encode(p) = event'[c].content
                                        /\ audio_bytes'[c] = p
        /\ SinkCalled(c) => (Received(c) /\ AudioWithPayload(event'[c]))
        /\ response_task[c] = "sink" => ~Received(c)
        /\ delivered'[c] # delivered[c]
              => /\ response_task[c] = "sink"
                 /\ delivered'[c] = Append(delivered[c], audio_bytes[c])]_vars

\* Two audio events with different payloads went through the sink, in the
\* order they were received.
C11_Witness ==
    /\ Len(delivered["c1"]) = 2
    /\ delivered["c1"][1] # delivered["c1"][2]
    /\ event["c1"].kind = "audioOutput"
    /\ B64Encode(delivered["c1"][2]) = event["c1"].content

\* The event's top-level tag is none of those the task dispatches on
\* (lines 284, 288, 294).
OtherTag(ev) == ev.kind \notin {"none", "contentStart", "textOutput", "audioOutput"}

\* C12 as stated: receiving an event with an unrecognised tag raises
\* nothing, invokes no sink, leaves the active flag unchanged, and the task
\* goes on to await the next event.
C12_UnknownTagAwaitsNext ==
    [][\A c \in OneCall :
        (Received(c) /\ OtherTag(event'[c]))
          => /\ ~SinkCalled(c)
             /\ is_active'[c] = is_active[c]
             /\ response_task'[c] = "waiting"]_vars

\* C12, amended: receiving an event with an unrecognised tag invokes no
\* sink, delivers nothing, changes neither the role nor the active flag,
\* and the task reads its loop condition next: it awaits the next event
\* when the session is active and leaves the loop and ends when the session
\* is already inactive.
C12_UnknownTagIgnored ==
    [][\A c \in OneCall :
        (Received(c) /\ OtherTag(event'[c]))
          => /\ ~SinkCalled(c)
             /\ is_active'[c] = is_active[c]
             /\ delivered'[c] = delivered[c]
             /\ role'[c] = role[c]
             /\ audio_bytes'[c] = audio_bytes[c]
             /\ response_task'[c] = IF is_active[c] THEN "waiting" ELSE "done"]_vars

\* An unrecognised event has just been received by an active session and
\* the task awaits the next one.
C12_Witness ==
    /\ OtherTag(event["c1"])
    /\ rx_left["c1"] = MaxRx - 1
    /\ is_active["c1"]
    /\ response_task["c1"] = "waiting"

\* The positions of a coroutine inside stop().
StopPositions ==
    {"stop_call", "stop_s1", "stop_s2", "stop_closing", "stop_cancel", "stop_await"}

\* A close of the outbound half has failed.
CloseFailed(c) == close_calls[c] > input_closed[c]

\* C13: stop() never raises: from any position inside it the caller goes
\* to another position inside it or to its return, and no exception is
\* recorded; and once a step of it has failed (the close; the three sends
\* are never attempted by this code), stop() has not returned before the
\* draining task, if there was one, was cancelled and awaited.
C13_StopNeverRaises ==
    /\ [](\A c \in OneCall :
            (CloseFailed(c) /\ pc[c] \notin StopPositions)
              => response_task[c] \in {"none", "done"})
    /\ [][\A c \in OneCall :
            pc[c] \in StopPositions
              => /\ pc'[c] \in StopPositions \cup {"stop_returned"}
                 /\ exc'[c] = exc[c]]_vars

\* The close failed, the task was running, and stop() cancelled it, awaited
\* it and returned.
C13_Witness ==
    /\ CloseFailed("c1")
    /\ cancels["c1"] = 1
    /\ response_task["c1"] = "done"
    /\ pc["c1"] = "stop_returned"

\* C14: the active flag is true only when all six handshake events have
\* been emitted on the session's stream: it is false during the handshake
\* and was never true in a session whose handshake failed.
C14_ActiveOnlyAfterHandshake ==
    \A c \in OneCall :
        is_active[c] => /\ Len(sent[c]) >= HandshakeLen
                        /\ SubSeq(sent[c], 1, HandshakeLen) = ExpectedHandshake(c)

\* C15: when a send on an opened stream has failed (a handshake step or an
\* audioInput of send_audio), then once the call's handler has returned the
\* draining task has stopped and the outbound half of the stream has been
\* closed.
C15_TeardownAfterSendFailure ==
    \A c \in OneCall :
        (pc[c] = "done" /\ exc[c] = "SendError" /\ stream[c] # "none")
          => /\ response_task[c] \in {"none", "done"}
             /\ input_closed[c] >= 1

\* The draining task has ended and nobody cancelled it.
TaskEndedAlone(c) == response_task[c] = "done" /\ cancels[c] = 0

\* The handler has left its try block: it is in its finally clause, inside
\* stop(), or has returned.
InCleanup(c) == pc[c] \in {"finally", "stop_returned", "done"} \cup StopPositions

\* C16: a draining task that has ended leaves the active flag false, and
\* when it ended on its own the handler, scheduled fairly, leaves its
\* receive loop and reaches its cleanup, whether or not another transport
\* message arrives.
C16_TaskEndReachesCleanup ==
    /\ [](\A c \in OneCall : response_task[c] = "done" => ~is_active[c])
    /\ \A c \in OneCall : TaskEndedAlone(c) ~> InCleanup(c)

\* The task ended on its own after start() returned, no transport message
\* ever arrived, and the handler is in its finally clause.
C16_Witness ==
    /\ TaskEndedAlone("c1")
    /\ start_status["c1"] = "returned"
    /\ msgs_left["c1"] = MaxMsgs
    /\ exc["c1"] = "none"
    /\ pc["c1"] = "finally"

\* The message the handler holds is a binary transport message.
BinaryMessage(m) == m.type = "websocket.receive" /\ "bytes" \in DOMAIN m

\* C17: the handler dispatches each received message before it receives
\* another; a binary message, first or not, always becomes a call of
\* send_audio with the message's payload as received; nothing else becomes
\* a call of send_audio, and the argument is not touched before send_audio
\* has run.
C17_BinaryForwardedVerbatim ==
    [][\A c \in OneCall :
        /\ (pc[c] = "got_msg" /\ pc'[c] # "got_msg")
              => (BinaryMessage(msg[c]) <=> pc'[c] = "sa_call")
        /\ (pc'[c] = "sa_call" /\ pc[c] # "sa_call")
              => /\ pc[c] = "got_msg"
                 /\ BinaryMessage(msg[c])
                 /\ pcm_bytes'[c] = msg[c].bytes
        /\ (pc[c] = "sa_call" /\ pc'[c] = "sa_call")
              => pcm_bytes'[c] = pcm_bytes[c]
        /\ pc[c] = "got_msg" => msg'[c] = msg[c]]_vars

\* The first message of the call was binary and its payload is the
\* argument of the send_audio call about to run; the banner check has not
\* consumed it.
C17_Witness ==
    /\ pc["c1"] = "sa_call"
    /\ first_message["c1"]
    /\ msgs_left["c1"] = MaxMsgs - 1
    /\ BinaryMessage(msg["c1"])
    /\ pcm_bytes["c1"] = msg["c1"].bytes

\* The step ends a sink call that delivered nothing and was not cancelled:
\* websocket.send_bytes raised and send_to_vonage logged it.
SinkFailed(c) ==
    /\ response_task[c] = "sink"
    /\ response_task'[c] # "sink"
    /\ ~cancel_requested[c]
    /\ delivered'[c] = delivered[c]

\* C18 as stated: after a failed delivery the draining task has not
\* terminated, the active flag is unchanged, and the task awaits the
\* following events.
C18_SinkFailureKeepsTask ==
    [][\A c \in OneCall :
        SinkFailed(c) => /\ is_active'[c] = is_active[c]
                         /\ response_task'[c] = "waiting"]_vars

\* C18, amended: a failed delivery changes neither the active flag nor
\* anything of the handler, and raises nothing; the task reads its loop
\* condition next: it awaits the following events when the session is
\* active, and leaves the loop and ends when the session is already
\* inactive, exactly as after a successful delivery.
C18_SinkFailureContained ==
    [][\A c \in OneCall :
        SinkFailed(c) => /\ is_active'[c] = is_active[c]
                         /\ pc'[c] = pc[c]
                         /\ exc'[c] = exc[c]
                         /\ response_task'[c] = IF is_active[c] THEN "waiting" ELSE "done"]_vars

\* An audio event was received by an active session, its delivery failed,
\* and the task awaits the next event.
C18_Witness ==
    /\ AudioWithPayload(event["c1"])
    /\ rx_left["c1"] = MaxRx - 1
    /\ delivered["c1"] = << >>
    /\ is_active["c1"]
    /\ response_task["c1"] = "waiting"

\* C19: on every stream an audioInput event comes after the six handshake
\* events of the stream's own session, all of them and in their order: no
\* audio is sent into a handshake that was only partly emitted.
C19_AudioAfterFullHandshake ==
    \A c \in OneCall :
        \A i \in 1..Len(sent[c]) :
            sent[c][i].kind = "audioInput"
              => /\ i > Len(ExpectedHandshake(c))
                 /\ SubSeq(sent[c], 1, Len(ExpectedHandshake(c))) = ExpectedHandshake(c)

\* The handler's loop has sent an audioInput event after the handshake.
C19_Witness ==
    /\ Len(sent["c1"]) = Len(ExpectedHandshake("c1")) + 1
    /\ Last(sent["c1"]).kind = "audioInput"
    /\ audio_chunks_sent["c1"] = 1

\* The session's flag has been true and is false: the flag is set in the
\* step that stores the opened stream (123..126) and nowhere else.
WentInactive(c) == stream[c] # "none" /\ ~is_active[c]

\* C20: a session whose flag has gone from true to false keeps the flag
\* false, and nothing more is emitted on its stream.
C20_InactivityAbsorbing ==
    [][\A c \in OneCall :
        WentInactive(c) => /\ ~is_active'[c]
                           /\ sent'[c] = sent[c]]_vars

\* A session that sent audio went inactive, and stop() has since run all
\* its sends and its close.
C20_Witness ==
    /\ WentInactive("c1")
    /\ Len(sent["c1"]) > HandshakeLen
    /\ close_calls["c1"] = 1
    /\ pc["c1"] = "done"

====
